---- MODULE Spec2Model ----
(***************************************************************************)
(* Model of the countdown timer of src/main.rs: the Timer component (the   *)
(* tick future, the alarm-trigger future, the terminal-event handler and   *)
(* the render body, all run by one cooperative loop), the playback thread  *)
(* the trigger future spawns, and the return of main that ends the process.*)
(*                                                                         *)
(* Durations are counted in milliseconds.                                  *)
(***************************************************************************)
EXTENDS Integers, Sequences, FiniteSets, TLC

-----------------------------------------------------------------------------
(* Bounds of the model *)

\* longest starting duration, in whole seconds
MaxSecs == 3
\* longest decoded sound, in 50 ms polling intervals
MaxAudio == 2
\* playback threads the model lets the trigger future spawn
MaxThreads == 2
\* the durations 0..MaxFormatSecs seconds are all formatted
MaxFormatSecs == 125

-----------------------------------------------------------------------------
(* Program constants *)

FIGLET_MIN_WIDTH == 60
\* Duration::from_secs(1), the amount one tick subtracts
TickUnit == 1000
\* milliseconds in the second, minute and hour of format_duration_hms
MsPerSec == 1000

\* starting durations: whole seconds and durations with a sub-second part
Durations == {s * MsPerSec + f : s \in 0..MaxSecs, f \in {0, 500}}
\* the tick counter saturates one above the longest duration
MaxTicks == MaxSecs + 1
\* terminal widths around the banner threshold
Widths == {FIGLET_MIN_WIDTH - 1, FIGLET_MIN_WIDTH, FIGLET_MIN_WIDTH + 1}
\* key codes and kinds a terminal event can carry
KeyCodes == {"q", "x", "Enter"}
KeyKinds == {"Press", "Repeat", "Release"}
\* what the playback thread can meet when it sets up the sound
Outcomes == {"no_device", "no_sink", "no_file", "no_decode", "ok"}
\* the default duration of main, in seconds
DefaultSecs == 60
\* the first argument of the command line: none, one parse_duration rejects,
\* or one it parses to a duration
Args == {<<"absent">>, <<"malformed">>} \cup {<<"valid", d>> : d \in Durations}
\* the disk: sound.mp3 is or is not in the working directory; the data
\* directory and the directory of the executable hold it, do not hold it, or
\* cannot be determined (ProjectDirs::from is None, current_exe fails)
FileConfigs == [cwd : BOOLEAN,
                data : {"present", "absent", "nodir"},
                exe : {"present", "absent", "nodir"}]
\* the hook state of Timer before the component is first rendered
Uncreated == "uncreated"

VARIABLES
    duration,         \* props.duration
    remaining,        \* use_state: time left, ms
    playing,          \* use_state: the alarm was triggered
    should_exit,      \* use_state
    stop_signal,      \* Arc<AtomicBool>
    finished_signal,  \* Arc<AtomicBool>
    session,          \* "running", "exited" (render loop over), "terminated" (process gone)
    trigPc,           \* trigger future: "wait", or "spawned" between thread::spawn and playing.set
    threads,          \* the playback threads spawned so far, in order
    ticks,            \* wake-ups of the tick future, saturating at MaxTicks
    quitSeen,         \* a quit key press was handled
    frame,            \* what the last render drew
    argv,             \* main: the first command-line argument, as parse_duration takes it
    files,            \* main: where sound.mp3 is on disk
    sound_file,       \* props.sound_file, the result of find_sound_file
    exit_code,        \* the status the process ended with
    otherSeen         \* a terminal event other than a quit press was handled

vars == <<duration, remaining, playing, should_exit, stop_signal, finished_signal,
          session, trigPc, threads, ticks, quitSeen, frame,
          argv, files, sound_file, exit_code, otherSeen>>

-----------------------------------------------------------------------------
(* Pure functions *)

Min(a, b) == IF a < b THEN a ELSE b

\* Duration::saturating_sub with the subtraction left unclamped: the unsigned
\* difference wraps around (the width is scaled down to 31 bits)
SaturatingSubWrapping(a, b) == (a - b) % 2147483647

\* Duration::saturating_sub
SaturatingSub(a, b) == IF a >= b THEN a - b ELSE 0

\* Duration::is_zero
IsZero(d) == d = 0

\* Duration::as_secs
AsSecs(d) == d \div MsPerSec

Digit(n) == SubSeq(<<"0", "1", "2", "3", "4", "5", "6", "7", "8", "9">>, n + 1, n + 1)

RECURSIVE Decimal(_)
Decimal(n) == IF n < 10 THEN Digit(n) ELSE Decimal(n \div 10) \o Digit(n % 10)

\* the {:02} of format! taken for {}: no padding
Pad2NoPad(n) == Decimal(n)

\* the {:02} of format!: decimal, zero-padded to at least two digits
Pad2(n) == IF n < 10 THEN <<"0">> \o Decimal(n) ELSE Decimal(n)

format_duration_hms(d) ==
    LET total_secs == AsSecs(d)
        hours == total_secs \div 3600
        minutes == (total_secs % 3600) \div 60
        seconds == total_secs % 60
    IN  Pad2(hours) \o <<":">> \o Pad2(minutes) \o <<":">> \o Pad2(seconds)

\* format_duration_figlet: the banner of hms, or None when the font or the
\* conversion fails
format_duration_figlet(hms, figletOk) ==
    IF figletOk THEN <<"Some", <<"banner", hms>>>> ELSE <<"None">>

\* Option::unwrap_or
UnwrapOr(opt, default) == IF opt[1] = "Some" THEN opt[2] ELSE default

\* find_sound_file with the data directory searched before the working
\* directory
find_sound_file_DataFirst(f) ==
    IF f.data = "present" THEN <<"Some", "<data_dir>/sound.mp3">>
    ELSE IF f.cwd THEN <<"Some", "sound.mp3">>
    ELSE IF f.exe = "present" THEN <<"Some", "<exe_dir>/sound.mp3">>
    ELSE <<"None">>

\* find_sound_file, lines 16-39: the working directory, then the data
\* directory, then the directory of the executable
find_sound_file(f) ==
    IF f.cwd THEN <<"Some", "sound.mp3">>
    ELSE IF f.data = "present" THEN <<"Some", "<data_dir>/sound.mp3">>
    ELSE IF f.exe = "present" THEN <<"Some", "<exe_dir>/sound.mp3">>
    ELSE <<"None">>

\* lines 162-165 with a rejected argument falling back to the default
MainDurationIgnoresError(a) ==
    IF a[1] = "valid" THEN <<"Ok", a[2]>> ELSE <<"Ok", DefaultSecs * MsPerSec>>

\* lines 162-165: the argument parsed (expect panics when parse_duration
\* rejects it), or 60 s when there is none
MainDuration(a) ==
    IF a[1] = "absent" THEN <<"Ok", DefaultSecs * MsPerSec>>
    ELSE IF a[1] = "valid" THEN <<"Ok", a[2]>>
    ELSE <<"Panic">>

-----------------------------------------------------------------------------
(* Initial state: Timer's hooks on the first render *)

\* the hooks of lines 61-67 on the first render, and the trackers of the model
HooksInit(d) ==
    /\ duration = d
    /\ remaining = d
    /\ playing = FALSE
    /\ should_exit = FALSE
    /\ stop_signal = FALSE
    /\ finished_signal = FALSE
    /\ session = "running"
    /\ trigPc = "wait"
    /\ threads = <<>>
    /\ ticks = 0
    /\ quitSeen = FALSE
    /\ frame = <<>>
    /\ exit_code = "none"
    /\ otherSeen = FALSE

\* a session started with a duration argument and sound.mp3 in the working
\* directory
Init ==
    /\ argv \in {<<"valid", d>> : d \in Durations}
    /\ files = [cwd |-> TRUE, data |-> "absent", exe |-> "absent"]
    /\ sound_file = find_sound_file(files)[2]
    /\ HooksInit(MainDuration(argv)[2])

\* the inputs of the runs from the start of main: a rejected argument or a
\* duration below one tick with every disk, and no argument (60 ticks of
\* countdown) with the sound found in the working directory or nowhere
StartupInputs ==
    ({a \in Args : a[1] = "malformed" \/ (a[1] = "valid" /\ a[2] < TickUnit)}
        \X FileConfigs)
    \cup ({<<"absent">>} \X {f \in FileConfigs : f.data = "absent" /\ f.exe = "absent"})

\* the durations, in seconds, whose rendering is checked: a run from zero, and
\* the turns of the hour, of ten hours and of a hundred hours
FormatSecs ==
    (0..MaxFormatSecs) \cup {3599, 3600, 3661, 35999, 36000, 359999, 360000}

\* a session started with any of these durations
InitFormat ==
    /\ argv \in {<<"valid", sec * MsPerSec>> : sec \in FormatSecs}
    /\ files = [cwd |-> TRUE, data |-> "absent", exe |-> "absent"]
    /\ sound_file = find_sound_file(files)[2]
    /\ HooksInit(MainDuration(argv)[2])

\* the process before main has run: no Timer yet
InitStartup ==
    /\ \E in \in StartupInputs : argv = in[1] /\ files = in[2]
    /\ sound_file = Uncreated
    /\ duration = Uncreated
    /\ remaining = Uncreated
    /\ playing = FALSE
    /\ should_exit = FALSE
    /\ stop_signal = FALSE
    /\ finished_signal = FALSE
    /\ session = "startup"
    /\ trigPc = "wait"
    /\ threads = <<>>
    /\ ticks = 0
    /\ quitSeen = FALSE
    /\ frame = <<>>
    /\ exit_code = "none"
    /\ otherSeen = FALSE

\* a panic of main: the process ends with status 101 and nothing was created
Panic ==
    /\ session' = "panicked"
    /\ exit_code' = "101"
    /\ UNCHANGED <<argv, files, sound_file, otherSeen, duration, remaining, playing,
                   should_exit, stop_signal, finished_signal, trigPc, threads,
                   ticks, quitSeen, frame>>

\* main, lines 161-169, up to the first render of Timer
MainStart ==
    /\ session = "startup"
    /\ IF MainDuration(argv)[1] = "Panic" \/ find_sound_file(files)[1] = "None"
       THEN Panic
       ELSE /\ session' = "running"
            /\ duration' = MainDuration(argv)[2]
            /\ remaining' = MainDuration(argv)[2]
            /\ sound_file' = find_sound_file(files)[2]
            /\ UNCHANGED <<argv, files, exit_code, otherSeen, playing, should_exit,
                           stop_signal, finished_signal, trigPc, threads, ticks,
                           quitSeen, frame>>

\* the cooperative loop can run one of its tasks: the session is live and the
\* trigger future is not in the middle of an iteration
LoopIdle == session = "running" /\ trigPc = "wait"

-----------------------------------------------------------------------------
(* The tick future, lines 71-78 *)

\* the condition of line 74 with the zero test replaced by "more than a tick left"
TickCondMoreThanUnit == ~playing /\ remaining > TickUnit

\* line 74: the countdown runs while the alarm is idle and time remains
TickCond == ~playing /\ ~IsZero(remaining)

\* one wake-up of the tick future
Tick ==
    /\ LoopIdle
    /\ ticks' = Min(ticks + 1, MaxTicks)
    /\ remaining' = IF TickCond THEN SaturatingSub(remaining, TickUnit) ELSE remaining
    /\ UNCHANGED <<argv, files, sound_file, exit_code, otherSeen, duration, playing, should_exit, stop_signal, finished_signal,
                   session, trigPc, threads, quitSeen, frame>>

-----------------------------------------------------------------------------
(* The alarm-trigger future, lines 80-111 *)

\* the condition of line 83 without the test of the remaining time
TriggerCondNoZero == ~playing

\* the condition of line 83 without the test of playing
TriggerCondNoGuard == IsZero(remaining)

\* line 83: time is up and the alarm was not triggered yet
TriggerCond == IsZero(remaining) /\ ~playing

\* the condition of line 107 with the test of playing inverted
ExitCondInverted(p, f) == ~p /\ f

\* the condition of line 107 without the test of the finished flag
ExitCondNoFinished(p, f) == p

\* line 107: the alarm was triggered and the playback thread is through
ExitCond(p, f) == p /\ f

\* lines 107-109 as the value should_exit has after them
ExitCheck(p) == IF ExitCond(p, finished_signal) THEN TRUE ELSE should_exit

\* a newly spawned playback thread, about to set up the sound
NewThread == [pc |-> "setup", audio |-> 0, outcome |-> "none"]

\* lines 83-104: time is up, the playback thread is spawned; it runs from here
\* on, while the future has not yet reached playing.set
TriggerSpawn ==
    /\ LoopIdle
    /\ TriggerCond
    /\ Len(threads) < MaxThreads
    /\ threads' = Append(threads, NewThread)
    /\ trigPc' = "spawned"
    /\ UNCHANGED <<argv, files, sound_file, exit_code, otherSeen, duration, remaining, playing, should_exit, stop_signal,
                   finished_signal, session, ticks, quitSeen, frame>>

\* lines 105-109: playing.set(true), then the exit check
TriggerSetPlaying ==
    /\ session = "running"
    /\ trigPc = "spawned"
    /\ playing' = TRUE
    /\ should_exit' = ExitCheck(TRUE)
    /\ trigPc' = "wait"
    /\ UNCHANGED <<argv, files, sound_file, exit_code, otherSeen, duration, remaining, stop_signal, finished_signal, session,
                   threads, ticks, quitSeen, frame>>

\* lines 83, 107-109: an iteration that spawns nothing, the exit check alone
TriggerNoSpawn ==
    /\ LoopIdle
    /\ ~TriggerCond
    /\ should_exit' = ExitCheck(playing)
    /\ UNCHANGED <<argv, files, sound_file, exit_code, otherSeen, duration, remaining, playing, stop_signal, finished_signal,
                   session, trigPc, threads, ticks, quitSeen, frame>>

TriggerCheck == TriggerSpawn \/ TriggerSetPlaying \/ TriggerNoSpawn

-----------------------------------------------------------------------------
(* The terminal-event handler, lines 113-127 *)

KeyEvents == [type : {"Key"}, code : KeyCodes, kind : KeyKinds]
TerminalEvents == KeyEvents \cup {[type |-> "Resize", code |-> "none", kind |-> "none"]}

\* a press (or repeat) of the quit key
QuitPress(ev) == ev.type = "Key" /\ ev.kind # "Release" /\ ev.code = "q"

\* the match of lines 116-118 with the guard on the kind dropped and the
\* release taken for the press
IsQuitOnRelease(ev) == ev.type = "Key" /\ ev.kind = "Release" /\ ev.code = "q"

\* lines 116-118: the arms that lead to the quit branch
IsQuit(ev) == ev.type = "Key" /\ ev.kind # "Release" /\ ev.code = "q"

TerminalEvent(ev) ==
    /\ LoopIdle
    /\ otherSeen' = (otherSeen \/ ~QuitPress(ev))
    /\ quitSeen' = (quitSeen \/ QuitPress(ev))
    /\ IF IsQuit(ev)
       THEN /\ stop_signal' = TRUE
            /\ should_exit' = TRUE
       ELSE UNCHANGED <<stop_signal, should_exit>>
    /\ UNCHANGED <<argv, files, sound_file, exit_code, duration, remaining, playing, finished_signal, session,
                   trigPc, threads, ticks, frame>>

-----------------------------------------------------------------------------
(* The render body, lines 129-158, and the end of main, line 169 *)

\* the frame with the banner only above the minimum width, not at it
FrameStrictThreshold(width, figletOk) ==
    LET text_color == IF playing THEN "Red" ELSE "Blue"
        hms == format_duration_hms(remaining)
        use_figlet == width > FIGLET_MIN_WIDTH
        display_text == IF use_figlet
                        THEN UnwrapOr(format_duration_figlet(hms, figletOk), <<"plain", hms>>)
                        ELSE <<"plain", hms>>
    IN  [color |-> text_color, content |-> display_text]

\* lines 133-141: the colour and the text of the frame
Frame(width, figletOk) ==
    LET text_color == IF playing THEN "Red" ELSE "Blue"
        hms == format_duration_hms(remaining)
        use_figlet == width >= FIGLET_MIN_WIDTH
        display_text == IF use_figlet
                        THEN UnwrapOr(format_duration_figlet(hms, figletOk), <<"plain", hms>>)
                        ELSE <<"plain", hms>>
    IN  [color |-> text_color, content |-> display_text]

\* one render pass on a terminal of the given width, the banner font working
\* or not: system.exit() when should_exit, which ends the render loop
RenderWith(width, figletOk) ==
    /\ LoopIdle
    /\ session' = IF should_exit THEN "exited" ELSE session
    /\ frame' = Frame(width, figletOk)
    /\ UNCHANGED <<argv, files, sound_file, exit_code, otherSeen, duration, remaining, playing, should_exit, stop_signal,
                   finished_signal, trigPc, threads, ticks, quitSeen>>

Render == \E width \in Widths, figletOk \in BOOLEAN : RenderWith(width, figletOk)

\* render_loop has returned: main returns and the process ends, and with it
\* every playback thread (no handle is kept, nothing joins them)
MainReturn ==
    /\ session = "exited"
    /\ session' = "terminated"
    /\ exit_code' = "0"
    /\ UNCHANGED <<argv, files, sound_file, otherSeen, duration, remaining, playing, should_exit, stop_signal,
                   finished_signal, trigPc, threads, ticks, quitSeen, frame>>

-----------------------------------------------------------------------------
(* The playback thread, lines 87-104 *)

ProcessAlive == session # "terminated"

\* a failed set-up taken as the end of the closure
AfterSetupEarlyReturn(o) == IF o = "ok" THEN "poll" ELSE "done"

\* lines 88-91: the four nested if-lets; every failure falls through to line 103
AfterSetup(o) == IF o = "ok" THEN "poll" ELSE "store"

\* lines 88-92: output stream, sink, file, decoder, sink.append
ThreadSetup(i) ==
    /\ ProcessAlive
    /\ threads[i].pc = "setup"
    /\ \E o \in Outcomes, a \in 1..MaxAudio :
          threads' = [threads EXCEPT ![i] =
                        [pc |-> AfterSetup(o),
                         audio |-> IF o = "ok" THEN a ELSE 0,
                         outcome |-> o]]
    /\ UNCHANGED <<argv, files, sound_file, exit_code, otherSeen, duration, remaining, playing, should_exit, stop_signal,
                   finished_signal, session, trigPc, ticks, quitSeen, frame>>

\* line 93: the sink still holds sound and no stop was requested
KeepPlaying(t) == t.audio # 0 /\ ~stop_signal

\* the polling loop with the finished flag stored on leaving the loop, before
\* sink.stop(), and again at line 103
ThreadPollStoresOnExit(i) ==
    /\ ProcessAlive
    /\ threads[i].pc = "poll"
    /\ threads' = [threads EXCEPT ![i] =
                     IF KeepPlaying(@)
                     THEN [@ EXCEPT !.audio = @ - 1]
                     ELSE [@ EXCEPT !.pc = "store", !.audio = 0]]
    /\ finished_signal' = (finished_signal \/ ~KeepPlaying(threads[i]))
    /\ UNCHANGED <<argv, files, sound_file, exit_code, otherSeen, duration, remaining,
                   playing, should_exit, stop_signal, session, trigPc, ticks,
                   quitSeen, frame>>

\* lines 93-96: one test of the while condition; either 50 ms of sleep, during
\* which the sink plays on, or sink.stop() and on to line 103
ThreadPoll(i) ==
    /\ ProcessAlive
    /\ threads[i].pc = "poll"
    /\ threads' = [threads EXCEPT ![i] =
                     IF KeepPlaying(@)
                     THEN [@ EXCEPT !.audio = @ - 1]
                     ELSE [@ EXCEPT !.pc = "store", !.audio = 0]]
    /\ UNCHANGED <<argv, files, sound_file, exit_code, otherSeen, duration, remaining, playing, should_exit, stop_signal,
                   finished_signal, session, trigPc, ticks, quitSeen, frame>>

\* the store of line 103 with the thread ending the session itself
ThreadStoreSetsExit(i) ==
    /\ ProcessAlive
    /\ threads[i].pc = "store"
    /\ finished_signal' = TRUE
    /\ should_exit' = TRUE
    /\ threads' = [threads EXCEPT ![i].pc = "done"]
    /\ UNCHANGED <<argv, files, sound_file, exit_code, otherSeen, duration, remaining, playing, stop_signal, session,
                   trigPc, ticks, quitSeen, frame>>

\* line 103: finished.store(true)
ThreadStore(i) ==
    /\ ProcessAlive
    /\ threads[i].pc = "store"
    /\ finished_signal' = TRUE
    /\ threads' = [threads EXCEPT ![i].pc = "done"]
    /\ UNCHANGED <<argv, files, sound_file, exit_code, otherSeen, duration, remaining, playing, should_exit, stop_signal,
                   session, trigPc, ticks, quitSeen, frame>>

ThreadStep(i) == ThreadSetup(i) \/ ThreadPoll(i) \/ ThreadStore(i)

PlaybackThread == \E i \in 1..Len(threads) : ThreadStep(i)

-----------------------------------------------------------------------------
(* Specifications *)

CooperativeLoop ==
    \/ Tick
    \/ TriggerCheck
    \/ \E ev \in TerminalEvents : TerminalEvent(ev)
    \/ Render

Next == CooperativeLoop \/ MainReturn \/ PlaybackThread

Spec == Init /\ [][Next]_vars

\* the first frames of a session: format_duration_hms applied to the starting
\* duration
FormatSpec == InitFormat /\ [][Render]_vars

\* the whole program, from the start of main
StartupSpec == InitStartup /\ [][MainStart \/ Next]_vars

\* The timers of the two futures fire and the loop renders after a change;
\* the operating system schedules the playback thread while the process
\* lives; main returns once the render loop is over.  Key input is the
\* user's: nothing makes it happen.
Fairness ==
    /\ WF_vars(Tick)
    /\ WF_vars(TriggerCheck)
    /\ WF_vars(Render)
    /\ WF_vars(MainReturn)
    /\ WF_vars(PlaybackThread)

FairSpec == Spec /\ Fairness

TypeOK ==
    /\ duration \in Durations
    /\ argv \in Args /\ files \in FileConfigs
    /\ otherSeen \in BOOLEAN
    /\ exit_code \in {"none", "0", "101"}
    /\ remaining \in 0..(MaxSecs * MsPerSec + 500)
    /\ playing \in BOOLEAN /\ should_exit \in BOOLEAN
    /\ stop_signal \in BOOLEAN /\ finished_signal \in BOOLEAN
    /\ session \in {"running", "exited", "terminated"}
    /\ trigPc \in {"wait", "spawned"}
    /\ Len(threads) <= MaxThreads
    /\ ticks \in 0..MaxTicks
    /\ quitSeen \in BOOLEAN

-----------------------------------------------------------------------------
(* Properties *)

\* the playback threads that are set up and streaming
Streaming(i) == threads[i].pc = "poll"

\* the playback threads whose set-up failed (device, sink, file or decoder)
Failed(i) == threads[i].outcome \in Outcomes \ {"ok"}

AnyFailed == \E i \in 1..Len(threads) : Failed(i)

\* C1: the playback task is dispatched at most once per session, whatever the
\* interleaving of tick, trigger check, key events and playback thread
C1_AtMostOneDispatch == Len(threads) <= 1

\* C1's case: the alarm was dispatched, the loop went on rendering and checking
\* with the remaining time at zero, and the exit check ended the session
C1_Witness ==
    /\ Len(threads) = 1 /\ playing /\ IsZero(remaining)
    /\ frame # <<>> /\ frame.color = "Red"
    /\ should_exit /\ ~quitSeen /\ ticks = MaxTicks

\* C2: should_exit is true only in states where a quit press was handled or
\* the alarm is playing and the finished flag is set; a handled quit press
\* makes it true at once, and a triggered alarm whose thread is through
\* makes it true on a later exit check
C2_ShouldExitIff ==
    /\ [](should_exit => (quitSeen \/ (playing /\ finished_signal)))
    /\ [](quitSeen => should_exit)
    /\ ((playing /\ finished_signal) ~> should_exit)

\* C2's case: the exit check alone has set should_exit
C2_Witness == should_exit /\ ~quitSeen /\ playing /\ finished_signal

\* C3: for a duration of D whole seconds, after D ticks the remaining time is
\* exactly zero; once the alarm is playing it stays so and nothing further is
\* dispatched; and without a quit press the alarm is eventually triggered
C3_CountdownThenAlarmOnce ==
    /\ []((duration % MsPerSec = 0 /\ ticks >= AsSecs(duration)) => IsZero(remaining))
    /\ [][playing => (playing' /\ Len(threads') = Len(threads))]_vars
    /\ ([]~quitSeen => <>(playing /\ Len(threads) = 1))

\* C3's case: two or more whole seconds counted down, the alarm triggered,
\* no quit press
C3_Witness ==
    /\ duration % MsPerSec = 0 /\ duration >= 2 * MsPerSec
    /\ ticks >= AsSecs(duration) /\ IsZero(remaining)
    /\ playing /\ Len(threads) = 1 /\ ~quitSeen

\* C4: whenever the stop flag is set while the playback thread is streaming
\* (alarm playing, finished flag unset), the finished flag eventually becomes
\* true
C4_StopLeadsToFinished ==
    (stop_signal /\ playing /\ ~finished_signal
        /\ \E i \in 1..Len(threads) : Streaming(i) /\ threads[i].audio > 0)
    ~> finished_signal

\* C5: handling a quit press sets both the stop flag and should_exit in the
\* handling step, whatever the remaining time and the state of the alarm
C5_QuitSetsStopAndExit == quitSeen => (stop_signal /\ should_exit)

\* C5's case: the quit press came while the alarm was playing and time had
\* been counted down
C5_Witness ==
    /\ quitSeen /\ stop_signal /\ should_exit
    /\ playing /\ ~finished_signal /\ duration > 0 /\ session = "running"

\* C6: in no state has the session ended while a started playback thread has
\* not yet set the finished flag
C6_NoEndBeforeAcknowledge ==
    (session # "running" /\ Len(threads) > 0) => finished_signal

\* C7: the remaining time never increases, and it does not change in or after
\* the step in which the alarm leaves idle
C7_RemainingMonotoneThenFrozen ==
    [][/\ remaining' <= remaining
       /\ (playing \/ playing') => remaining' = remaining]_vars

\* C7's case: a countdown of several ticks, and ticks taken up to the
\* saturation of the counter with the alarm playing
C7_Witness ==
    /\ duration >= 2 * MsPerSec /\ IsZero(remaining)
    /\ playing /\ ticks = MaxTicks

\* C8: the remaining time is never negative, and a tick taken with more than
\* zero and less than one tick unit left yields exactly zero
C8_NeverNegativeClamped ==
    /\ [](remaining >= 0)
    /\ [][(remaining > 0 /\ remaining < TickUnit /\ ~playing /\ ticks' # ticks)
            => remaining' = 0]_vars

\* C8's case: a duration with a sub-second part, counted down through the
\* clamping tick
C8_Witness ==
    /\ duration % MsPerSec # 0 /\ duration > MsPerSec
    /\ ticks > AsSecs(duration) /\ remaining = 0

\* C9: a playback thread ends only by setting the finished flag; after a
\* failed set-up should_exit becomes true and the session ends; and without a
\* quit press the finished flag is set
C9_FailureStillFinishes ==
    /\ [](\A i \in 1..Len(threads) : threads[i].pc = "done" => finished_signal)
    /\ (AnyFailed ~> should_exit)
    /\ (AnyFailed ~> (session = "terminated"))
    /\ ([]~quitSeen => (AnyFailed ~> finished_signal))

\* C9's case: the set-up failed, the flag was set, the exit check ended the
\* session with no key pressed
C9_Witness ==
    /\ AnyFailed /\ finished_signal /\ should_exit /\ ~quitSeen
    /\ session = "terminated"

\* C10: a step of the playback thread leaves the remaining time, playing,
\* should_exit and the stop flag unchanged; the finished flag changes only in
\* a step of the playback thread, the stop flag only in the key handler
C10_ThreadBoundary ==
    [][/\ PlaybackThread => UNCHANGED <<remaining, playing, should_exit, stop_signal>>
       /\ (finished_signal' # finished_signal) => PlaybackThread
       /\ (stop_signal' # stop_signal) => \E ev \in TerminalEvents : TerminalEvent(ev)]_vars

\* C10's case: both flags crossed the boundary: the stop was requested and the
\* thread, which was streaming, has set the finished flag
C10_Witness ==
    /\ stop_signal /\ finished_signal /\ Len(threads) = 1
    /\ threads[1].pc = "done" /\ threads[1].outcome = "ok"

\* C11: the finished flag is false while no playback thread was started, is
\* never reset once true, and is written in exactly the steps in which a
\* playback thread concludes, each thread concluding once
C11_FinishedWrittenOnce ==
    /\ [](threads = <<>> => ~finished_signal)
    /\ [][finished_signal => finished_signal']_vars
    /\ [][(finished_signal' # finished_signal)
            <=> (\E i \in 1..Len(threads) :
                    threads[i].pc # "done" /\ threads'[i].pc = "done")]_vars
    /\ [][\A i \in 1..Len(threads) :
            threads[i].pc = "done" => threads'[i] = threads[i]]_vars

\* C11's case: the sound played to its natural end and the thread has stored
\* the flag
C11_Witness ==
    /\ finished_signal /\ ~stop_signal /\ Len(threads) = 1
    /\ threads[1].pc = "done" /\ threads[1].outcome = "ok"

\* C12: handling a key release of any key, or a key press of a key other
\* than q, leaves the remaining time, playing, the stop flag, the finished
\* flag and should_exit unchanged
C12_OtherKeysNoEffect ==
    [][\A ev \in KeyEvents :
        (TerminalEvent(ev) /\ (ev.kind = "Release" \/ ev.code # "q"))
            => UNCHANGED <<remaining, playing, stop_signal, finished_signal,
                           should_exit>>]_vars

\* C12's case: such an event was handled during the countdown and no quit
\* press was
C12_Witness ==
    /\ otherSeen /\ ~quitSeen /\ session = "running"
    /\ ~stop_signal /\ ~should_exit /\ remaining > 0

C13_Chars == <<"0", "1", "2", "3", "4", "5", "6", "7", "8", "9">>

C13_Two(n) == <<C13_Chars[(n \div 10) + 1], C13_Chars[(n % 10) + 1]>>

C13_Hours(h) ==
    IF h < 100 THEN C13_Two(h) ELSE <<C13_Chars[(h \div 100) + 1]>> \o C13_Two(h % 100)

C13_Expected(sec) ==
    C13_Hours(sec \div 3600) \o <<":">> \o C13_Two((sec % 3600) \div 60)
        \o <<":">> \o C13_Two(sec % 60)

\* C13: a frame drawn with sec whole seconds remaining carries HH:MM:SS with
\* HH = sec div 3600, MM = (sec mod 3600) div 60, SS = sec mod 60, each padded
\* with zeros to at least two digits; 3661 gives 01:01:01, 0 gives 00:00:00
\* and 359999 gives 99:59:59
C13_FormatHms ==
    frame # <<>> =>
        /\ \A sec \in FormatSecs :
              remaining = sec * MsPerSec => frame.content[2] = C13_Expected(sec)
        /\ remaining = 3661 * MsPerSec
              => frame.content[2] = <<"0", "1", ":", "0", "1", ":", "0", "1">>
        /\ remaining = 0
              => frame.content[2] = <<"0", "0", ":", "0", "0", ":", "0", "0">>
        /\ remaining = 359999 * MsPerSec
              => frame.content[2] = <<"9", "9", ":", "5", "9", ":", "5", "9">>

\* C13's case: 359999 seconds were formatted
C13_Witness ==
    /\ frame # <<>> /\ remaining = 359999 * MsPerSec
    /\ frame.content[2] = <<"9", "9", ":", "5", "9", ":", "5", "9">>

\* sound.mp3 is in none of the three locations
NoSoundAnywhere == ~files.cwd /\ files.data # "present" /\ files.exe # "present"

\* C14: once main has resolved the asset, the path is that of the first
\* location holding sound.mp3 in the order working directory, data directory,
\* directory of the executable, for every combination of locations; there is
\* no path (main panics) exactly when none of the three holds it
C14_AssetResolution ==
    (session # "startup" /\ argv[1] # "malformed") =>
        /\ files.cwd => sound_file = "sound.mp3"
        /\ (~files.cwd /\ files.data = "present")
              => sound_file = "<data_dir>/sound.mp3"
        /\ (~files.cwd /\ files.data # "present" /\ files.exe = "present")
              => sound_file = "<exe_dir>/sound.mp3"
        /\ NoSoundAnywhere <=> (session = "panicked" /\ sound_file = Uncreated)

\* C14's case: the file is in the working directory and in the data
\* directory, and the copy of the working directory was taken
C14_Witness ==
    /\ session = "running" /\ files.cwd /\ files.data = "present"
    /\ sound_file = "sound.mp3"

\* C15: with a malformed duration argument or with the asset missing, the
\* program never gets past startup: no hook state is created, no tick is
\* taken, no playback thread spawned, nothing drawn, and the only step main
\* takes is the panic, which ends the process with a non-zero status
C15_StartupFailureAborts ==
    /\ []((argv[1] = "malformed" \/ NoSoundAnywhere) =>
            /\ session \in {"startup", "panicked"}
            /\ duration = Uncreated /\ remaining = Uncreated /\ sound_file = Uncreated
            /\ ~playing /\ ~should_exit /\ ~stop_signal /\ ~finished_signal
            /\ ticks = 0 /\ threads = <<>> /\ frame = <<>>
            /\ exit_code \in {"none", "101"}
            /\ (session = "panicked" <=> exit_code = "101"))
    /\ [][((argv[1] = "malformed" \/ NoSoundAnywhere) /\ session = "startup")
            => (session' = "panicked" /\ exit_code' = "101")]_vars

\* C15's case: the argument was malformed, with the asset at hand, and main
\* has panicked
C15_Witness ==
    /\ argv[1] = "malformed" /\ files.cwd
    /\ session = "panicked" /\ exit_code = "101"

\* C16: in no state is a playback thread started, or the finished flag set,
\* while playing is still false
C16_PlayingSetBeforeDispatch ==
    ~playing => (threads = <<>> /\ ~finished_signal)

\* C17 as claimed: a tick with the alarm idle and time remaining subtracts
\* exactly one tick unit, any other tick changes nothing, and no tick changes
\* playing, the stop flag, the finished flag or should_exit
C17_TickExactlyOneUnit ==
    [][ticks' # ticks =>
        /\ remaining' = IF ~playing /\ remaining > 0
                        THEN remaining - TickUnit
                        ELSE remaining
        /\ UNCHANGED <<playing, stop_signal, finished_signal, should_exit>>]_vars

\* C17 as amended: a tick with the alarm idle and time remaining subtracts
\* one tick unit, or all that remains when less than a unit remains; any
\* other tick changes nothing; no tick changes playing, the stop flag, the
\* finished flag or should_exit
C17_TickOneUnitClamped ==
    [][ticks' # ticks =>
        /\ remaining' = IF ~playing /\ remaining > 0
                        THEN (IF remaining >= TickUnit THEN remaining - TickUnit ELSE 0)
                        ELSE remaining
        /\ UNCHANGED <<playing, stop_signal, finished_signal, should_exit>>]_vars

\* C17's case: whole units and then a last half unit were ticked away, and
\* ticks went on with the alarm playing
C17_Witness ==
    /\ duration % MsPerSec # 0 /\ duration > 2 * MsPerSec
    /\ remaining = 0 /\ playing /\ ticks = MaxTicks

\* C18: a render on a terminal of width w draws the banner of the formatted
\* time exactly when w is at least 60 and the banner conversion succeeds, the
\* plain HH:MM:SS string otherwise, and changes none of the five state cells
C18_BannerChoice ==
    [][\A w \in Widths, ok \in BOOLEAN :
        RenderWith(w, ok) =>
            /\ frame'.content = IF w >= 60 /\ ok
                                THEN <<"banner", format_duration_hms(remaining)>>
                                ELSE <<"plain", format_duration_hms(remaining)>>
            /\ UNCHANGED <<remaining, playing, stop_signal, finished_signal,
                           should_exit>>]_vars

\* C18's case: a banner was drawn during the countdown
C18_Witness ==
    /\ frame # <<>> /\ frame.content[1] = "banner" /\ frame.color = "Blue"
    /\ remaining > 0

\* C19: whenever playing is true the remaining time is exactly zero
C19_PlayingOnlyAtZero == playing => IsZero(remaining)

\* C19's case: a countdown of more than a second ended and the alarm plays
C19_Witness ==
    /\ playing /\ duration > MsPerSec /\ IsZero(remaining)
    /\ ~finished_signal /\ Len(threads) = 1 /\ threads[1].pc = "poll"

\* C20: a session in which no quit press is handled eventually has
\* should_exit set by the exit check, with the playback thread through, and
\* ends
C20_NoInputTerminates ==
    ([]~quitSeen) => <>(should_exit /\ finished_signal /\ session = "terminated")

\* C20's case: no terminal event at all, the sound played, the process ended
\* with status 0
C20_Witness ==
    /\ ~quitSeen /\ ~otherSeen /\ duration > 0
    /\ session = "terminated" /\ exit_code = "0"
    /\ Len(threads) = 1 /\ threads[1].outcome = "ok" /\ threads[1].pc = "done"

====
